---- MODULE Spec2Model ----
(***************************************************************************)
(* The edge filters of What's Wrong (EdgeLabelFilter.py, EdgeTokenFilter.py)*)
(* as a state machine: one filter object, its configuration fields, and the *)
(* value returned by the last call made on it.                              *)
(***************************************************************************)
EXTENDS Integers, Sequences, FiniteSets, TLC

VARIABLES
    filterClass,   \* the class of the filter object: "EdgeLabelFilter" or "EdgeTokenFilter"
    allowed,       \* self._allowedLabels / self._allowedProperties
    usePath,       \* self._usePath
    collaps,       \* self._collaps
    wholeWords,    \* self._wholeWords
    ret            \* what the last call on the object returned (or raised)

vars == <<filterClass, allowed, usePath, collaps, wholeWords, ret>>

(***************************************************************************)
(* Bounds of the inputs.                                                    *)
(***************************************************************************)
\* tokens of an instance
NumTokens == 3
\* edges handed to EdgeTokenFilter.calculatePaths
MaxEdges == 3
\* edges handed to EdgeTokenFilter.filterEdges
MaxFilterEdges == 2
\* edges of an instance handed to EdgeTokenFilter.filter
MaxInstEdges == 2
\* split points of an instance
MaxSplits == 2
\* edges handed to EdgeLabelFilter.filterEdges
MaxLabelEdges == 3

(***************************************************************************)
(* Strings are sequences of characters.                                     *)
(***************************************************************************)
\* the labels of the edges handed to EdgeLabelFilter.filterEdges
Labels == {<<>>, <<"a">>, <<"b">>, <<"a", "a">>, <<"a", "b">>, <<"b", "a">>, <<"b", "b">>}

\* the strings handed to the constructors and to add/remove
AllowedValues == {<<"a">>, <<"a", "b">>}

\* Python's  sub in s  on strings: sub occurs in s as a contiguous run
Contains(s, sub) ==
    \E i \in 0..(Len(s) - Len(sub)) : SubSeq(s, i + 1, i + Len(sub)) = sub

(***************************************************************************)
(* Tokens, edges, instances.                                                *)
(***************************************************************************)
\* the property values a token may carry
PropCycle == << {<<"a">>}, {<<"b">>}, {<<"b">>, <<"a", "b">>} >>

\* the token sequence the instances are built on
Sentence ==
    [i \in 1..NumTokens |->
        [index |-> i - 1, props |-> PropCycle[((i - 1) % Len(PropCycle)) + 1]]]

EdgeTypes == {[prefix |-> "T", postfix |-> "x"], [prefix |-> "U", postfix |-> "x"]}

Edge(From, To, label, type, renderType) ==
    [From |-> From, To |-> To, label |-> label, type |-> type, renderType |-> renderType]

\* Edge.getTypePrefix
getTypePrefix(e) == e.type.prefix

\* Token.propertiesContain(substrings, wholeWord)
propertiesContain(token, substrings, wholeWord) ==
    \E v \in token.props : \E s \in substrings :
        IF wholeWord THEN v = s ELSE Contains(v, s)

\* NLPInstance.getToken(index)
getToken(original, index) == original.tokens[index + 1]

DepEdges(s, types) ==
    {Edge(s[i], s[j], <<"a">>, t, "dependency") :
        i \in 1..Len(s), j \in 1..Len(s), t \in types}

\* dependency edges from a token to itself or to a later token
ForwardDepEdges(s, types) == {e \in DepEdges(s, types) : e.From.index <= e.To.index}

SpanEdges(s, types) ==
    {Edge(s[p[1]], s[p[2]], <<"a">>, t, "span") :
        p \in {q \in (1..Len(s)) \X (1..Len(s)) : q[1] <= q[2]}, t \in types}

RECURSIVE SubsetsUpTo(_, _)
SubsetsUpTo(S, n) ==
    IF n = 0 THEN {{}}
    ELSE {X \cup Y : X \in SubsetsUpTo(S, n - 1), Y \in {{}} \cup {{e} : e \in S}}

RECURSIVE SeqsUpTo(_, _)
SeqsUpTo(S, n) ==
    IF n = 0 THEN {<<>>}
    ELSE {<<>>} \cup {<<e>> \o q : e \in S, q \in SeqsUpTo(S, n - 1)}

\* edge collections handed to EdgeTokenFilter.calculatePaths
EdgeSetInputs == SubsetsUpTo(DepEdges(Sentence, EdgeTypes), MaxEdges)

\* edge collections handed to EdgeTokenFilter.filterEdges
FilterEdgeInputs == SubsetsUpTo(DepEdges(Sentence, EdgeTypes), MaxFilterEdges)

\* edge lists handed to EdgeLabelFilter.filterEdges
LabelEdgeInputs ==
    LET s == Sentence
        pool == {Edge(s[1], s[2], l, [prefix |-> "T", postfix |-> "x"], "dependency") :
                    l \in Labels}
    IN  SeqsUpTo(pool, MaxLabelEdges)

\* non-decreasing split points within [0, tokenCount)
SplitInputs ==
    {sp \in SeqsUpTo(0..(NumTokens - 1), MaxSplits) :
        \A i \in 1..(Len(sp) - 1) : sp[i] <= sp[i + 1]}

\* well-formed instances handed to EdgeTokenFilter.filter
InstanceInputs ==
    {[tokens |-> Sentence, edges |-> E, splitPoints |-> sp] :
        E \in SubsetsUpTo(ForwardDepEdges(Sentence, {[prefix |-> "T", postfix |-> "x"]})
                            \cup SpanEdges(Sentence, {[prefix |-> "T", postfix |-> "x"]}),
                          MaxInstEdges),
        sp \in SplitInputs}

\* tokens that are no member of Sentence: one whose index is a member's
\* index, one whose index lies past the end of the sequence
ForeignTokens ==
    {[index |-> 0, props |-> {<<"b">>}], [index |-> NumTokens, props |-> {<<"a">>}]}

\* edges with one end at a foreign token; a span edge is given only ends
\* whose indices lie within the sequence
CorruptEdges ==
    LET s == Sentence
        t == [prefix |-> "T", postfix |-> "x"]
    IN  {Edge(f, s[i], <<"a">>, t, "dependency") : f \in ForeignTokens, i \in 1..Len(s)}
        \cup {Edge(s[i], f, <<"a">>, t, "dependency") : f \in ForeignTokens, i \in 1..Len(s)}
        \cup {Edge(f, s[i], <<"a">>, t, "span") :
                f \in {g \in ForeignTokens : g.index < Len(s)},
                i \in 1..Len(s)}

\* instances one of whose edges refers to a token outside the token sequence
CorruptInstanceInputs ==
    {[tokens |-> Sentence, edges |-> {c} \cup E, splitPoints |-> sp] :
        c \in CorruptEdges,
        E \in {{}} \cup {{e} : e \in ForwardDepEdges(Sentence, {[prefix |-> "T", postfix |-> "x"]})},
        sp \in {<<>>, <<0>>}}

(***************************************************************************)
(* EdgeLabelFilter.filterEdges                                              *)
(***************************************************************************)
\* a variant that appends the edge once per matching allowed string (no break)
RECURSIVE LabelLoopNoBreak(_, _, _)
LabelLoopNoBreak(original, allowedLabels, result) ==
    IF original = <<>> THEN result
    ELSE LET edge == Head(original)
             n == Cardinality({a \in allowedLabels : Contains(edge.label, a)})
             extra == [i \in 1..n |-> edge]
         IN  LabelLoopNoBreak(Tail(original), allowedLabels, result \o extra)

\* for edge in original: for allowed in self._allowedLabels: if allowed in edge.label: append, break
RECURSIVE LabelLoop(_, _, _)
LabelLoop(original, allowedLabels, result) ==
    IF original = <<>> THEN result
    ELSE LET edge == Head(original)
         IN  LabelLoop(Tail(original), allowedLabels,
                 IF \E a \in allowedLabels : Contains(edge.label, a)
                 THEN Append(result, edge)
                 ELSE result)

LabelFilterEdges(allowedLabels, original) ==
    IF Cardinality(allowedLabels) = 0 THEN original
    ELSE LabelLoop(original, allowedLabels, <<>>)

(***************************************************************************)
(* EdgeTokenFilter.Paths: the nested dict From -> to -> set of paths, held  *)
(* as the set of its <<From, to, path>> entries.                            *)
(***************************************************************************)
\* the class object Token, the default value of getTos' and getPaths' From
TokenClass == [class |-> "Token"]

\* Paths.keys
PathsKeys(paths) == {x[1] : x \in paths}

\* Paths.__len__
PathsLen(paths) == Cardinality(PathsKeys(paths))

\* Paths.getTos
getTos(paths, From) ==
    IF From \in PathsKeys(paths) THEN {x[2] : x \in {y \in paths : y[1] = From}}
    ELSE {}

\* Paths.getPaths, which the code calls for pairs present in the map; for an
\* absent pair (None or KeyError in the code) this is the empty set
getPaths(paths, From, to) == {x[3] : x \in {y \in paths : y[1] = From /\ y[2] = to}}

\* Paths.addPath
addPath(paths, From, to, path) == paths \cup {<<From, to, path>>}

(***************************************************************************)
(* EdgeTokenFilter.calculatePaths                                           *)
(***************************************************************************)
\* lines 189-193: the one-edge paths, indexed in both directions
FirstLevel(edges) ==
    UNION {addPath(addPath({}, e.From, e.To, {e}), e.To, e.From, {e}) : e \in edges}

\* path2 in path1 : path2 is a Path object (a set of edges) looked up among
\* the Edge elements of path1; a Path never equals an Edge
PathInPath(path2, path1) == FALSE

\* iter(path).next() : some member of the path (where the iterator has a
\* next method)
AnyEdge(path) == CHOOSE e \in path : TRUE

\* line 205
Accept(path1, path2) ==
    /\ ~PathInPath(path2, path1)
    /\ getTypePrefix(AnyEdge(path1)) = getTypePrefix(AnyEdge(path2))

\* a variant of the level with getTos given its argument: getTos(From) and
\* getTos(over)
NextLevelKeyed(previous, first) ==
    UNION {
      UNION {
        UNION {
          UNION {
            UNION {
                IF Accept(path1, path2)
                THEN addPath(addPath({}, From, to, path1 \cup path2),
                             to, From, path1 \cup path2)
                ELSE {}
              : path2 \in getPaths(first, over, to)}
            : path1 \in getPaths(previous, From, over)}
          : to \in getTos(first, over)}
        : over \in getTos(previous, From)}
      : From \in PathsKeys(previous)}

\* lines 198-210: getTos is called without its argument, so From is the
\* default, the class Token, which is never a key of the map
NextLevel(previous, first) ==
    UNION {
      UNION {
        UNION {
          UNION {
            UNION {
                IF Accept(path1, path2)
                THEN addPath(addPath({}, From, to, path1 \cup path2),
                             to, From, path1 \cup path2)
                ELSE {}
              : path2 \in getPaths(first, over, to)}
            : path1 \in getPaths(previous, From, over)}
          : to \in getTos(first, TokenClass)}
        : over \in getTos(previous, TokenClass)}
      : From \in PathsKeys(previous)}

\* lines 197-215: the while loop; a level is appended only when it is empty
RECURSIVE Levels(_, _, _)
Levels(previous, first, pathsPerLength) ==
    LET paths == NextLevel(previous, first)
        appended == IF PathsLen(paths) = 0
                    THEN Append(pathsPerLength, paths)
                    ELSE pathsPerLength
    IN  IF PathsLen(paths) = 0 THEN appended
        ELSE Levels(paths, first, appended)

\* a variant that composes a second level from pairs of adjacent edges
\* without comparing their type prefixes
calculatePathsNoTypeCheck(edges) ==
    LET first == FirstLevel(edges)
    IN  first \cup
        UNION {
            IF x[2] = y[1] /\ x[3] # y[3]
            THEN {<<x[1], y[2], x[3] \cup y[3]>>, <<y[2], x[1], x[3] \cup y[3]>>}
            ELSE {}
          : x \in first, y \in first}

calculatePaths(edges) ==
    LET first == FirstLevel(edges)
        pathsPerLength == Levels(first, first, <<first>>)
    IN  UNION {pathsPerLength[i] : i \in 1..Len(pathsPerLength)}

(***************************************************************************)
(* EdgeTokenFilter.filterEdges                                              *)
(***************************************************************************)
\* lines 254-262
PathModeEdges(allowedProperties, wholeWord, original) ==
    LET paths == calculatePaths(original)
    IN  UNION {
          UNION {
            UNION getPaths(paths, From, to)
            : to \in {t \in getTos(paths, From) :
                        propertiesContain(t, allowedProperties, wholeWord)}}
          : From \in {f \in PathsKeys(paths) :
                        propertiesContain(f, allowedProperties, wholeWord)}}

\* a variant that keeps an edge only when both of its tokens qualify
EdgeModeEdgesBoth(allowedProperties, wholeWord, original) ==
    {edge \in original :
        /\ propertiesContain(edge.From, allowedProperties, wholeWord)
        /\ propertiesContain(edge.To, allowedProperties, wholeWord)}

\* lines 264-269: the list of the kept edges, held as the set of its members
\* (the input is the instance's edge set, iterated once)
EdgeModeEdges(allowedProperties, wholeWord, original) ==
    {edge \in original :
        \/ propertiesContain(edge.From, allowedProperties, wholeWord)
        \/ propertiesContain(edge.To, allowedProperties, wholeWord)}

\* a variant that tests usePath before the empty allowed set
TokenFilterEdgesPathFirst(allowedProperties, path, wholeWord, original) ==
    IF path THEN PathModeEdges(allowedProperties, wholeWord, original)
    ELSE IF Cardinality(allowedProperties) = 0 THEN original
    ELSE EdgeModeEdges(allowedProperties, wholeWord, original)

TokenFilterEdges(allowedProperties, path, wholeWord, original) ==
    IF Cardinality(allowedProperties) = 0 THEN original
    ELSE IF path THEN PathModeEdges(allowedProperties, wholeWord, original)
    ELSE EdgeModeEdges(allowedProperties, wholeWord, original)

(***************************************************************************)
(* EdgeTokenFilter.filter                                                   *)
(***************************************************************************)
\* a variant in which a span edge keeps only its two end tokens
SurvivingTokensEndsOnly(edges, original) ==
    UNION {{e.From, e.To} : e \in edges}

\* lines 293-301: the tokens of the surviving edges
SurvivingTokens(edges, original) ==
    UNION {
        IF e.renderType = "dependency" THEN {e.From, e.To}
        ELSE IF e.renderType = "span"
             THEN {getToken(original, i) : i \in (e.From.index)..(e.To.index)}
             ELSE {}
      : e \in edges}

\* line 303: sorted(tokens, key=attrgetter("int_index")). The sort is stable
\* over the iteration order of the set, so tokens of equal index come out in
\* either order: every order the call can produce
RECURSIVE SortedOrders(_)
SortedOrders(tokens) ==
    IF tokens = {} THEN {<<>>}
    ELSE LET firsts == {x \in tokens : \A y \in tokens : x.index <= y.index}
         IN  UNION {{<<t>> \o q : q \in SortedOrders(tokens \ {t})} : t \in firsts}

\* lines 305-313: Token(len(updatedTokens)) merged with original.tokens[int(t.index)]
UpdatedTokens(sorted, original) ==
    [k \in 1..Len(sorted) |->
        [index |-> k - 1, props |-> original.tokens[sorted[k].index + 1].props]]

\* lines 306, 311: old2new
Old2New(sorted, updatedTokens) ==
    [t \in {sorted[k] : k \in 1..Len(sorted)} |->
        updatedTokens[CHOOSE k \in 1..Len(sorted) : sorted[k] = t]]

\* lines 315-318
UpdatedEdges(edges, old2new) ==
    {[e EXCEPT !.From = old2new[e.From], !.To = old2new[e.To]] : e \in edges}

\* a variant of the cursor loop that also advances past a token at the split point
RECURSIVE AdvanceInclusive(_, _, _, _)
AdvanceInclusive(newTokenIndex, oldSplitPoint, sorted, n) ==
    IF newTokenIndex + 1 < n /\ sorted[newTokenIndex + 1].index <= oldSplitPoint
    THEN AdvanceInclusive(newTokenIndex + 1, oldSplitPoint, sorted, n)
    ELSE newTokenIndex

\* lines 323-328: new2old[updatedTokens[i]] is sorted[i]; n is len(tokens)
RECURSIVE Advance(_, _, _, _)
Advance(newTokenIndex, oldSplitPoint, sorted, n) ==
    IF newTokenIndex + 1 < n /\ sorted[newTokenIndex + 1].index < oldSplitPoint
    THEN Advance(newTokenIndex + 1, oldSplitPoint, sorted, n)
    ELSE newTokenIndex

\* lines 320-329: the cursor newTokenIndex is kept from one split point to the next
RECURSIVE NewSplitPoints(_, _, _, _, _)
NewSplitPoints(oldSplitPoints, newTokenIndex, sorted, n, splitPoints) ==
    IF oldSplitPoints = <<>> THEN splitPoints
    ELSE LET idx == Advance(newTokenIndex, Head(oldSplitPoints), sorted, n)
         IN  NewSplitPoints(Tail(oldSplitPoints), idx, sorted, n, Append(splitPoints, idx))

\* lines 305-332, for one outcome of the sort
CollapseSorted(edges, original, tokens, sorted) ==
        IF \E k \in 1..Len(sorted) : sorted[k].index + 1 \notin DOMAIN original.tokens
        THEN [op |-> "filter", arg |-> original, raised |-> "IndexError"]   \* line 310
        ELSE
        LET updatedTokens == UpdatedTokens(sorted, original)
            old2new == Old2New(sorted, updatedTokens)
        IN  IF \E e \in edges : e.From \notin DOMAIN old2new \/ e.To \notin DOMAIN old2new
            THEN [op |-> "filter", arg |-> original, raised |-> "KeyError"]   \* line 317
            ELSE IF Len(original.splitPoints) > 0 /\ Len(updatedTokens) = 0
            THEN [op |-> "filter", arg |-> original, raised |-> "IndexError"]   \* line 323
            ELSE [op |-> "filter", arg |-> original, raised |-> "",
                  collapsed |-> TRUE,
                  filtered |-> edges,
                  old2new |-> old2new,
                  tokens |-> updatedTokens,
                  edges |-> UpdatedEdges(edges, old2new),
                  splitPoints |-> NewSplitPoints(original.splitPoints, 0, sorted,
                                                 Cardinality(tokens), <<>>)]

\* lines 293-332: the outcomes of the collapse branch
Collapse(edges, original) ==
    LET tokens == SurvivingTokens(edges, original)
    IN  {CollapseSorted(edges, original, tokens, sorted) : sorted \in SortedOrders(tokens)}

\* lines 287-332: the outcomes of the call, each the returned NLPInstance with
\* the locals edges (filtered) and old2new kept beside it, or the exception
filter(allowedProperties, path, collapse, wholeWord, original) ==
    LET edges == TokenFilterEdges(allowedProperties, path, wholeWord, original.edges)
    IN  IF ~collapse
        THEN {[op |-> "filter", arg |-> original, raised |-> "",
               collapsed |-> FALSE,
               filtered |-> edges,
               old2new |-> <<>>,
               tokens |-> original.tokens,
               edges |-> edges,
               splitPoints |-> original.splitPoints]}
        ELSE Collapse(edges, original)

(***************************************************************************)
(* Calls on the filter object.                                              *)
(***************************************************************************)
None == [op |-> "none"]

\* a call is made on the object once the previous call's value has been taken
IsLabel == filterClass = "EdgeLabelFilter" /\ ret = None
IsToken == filterClass = "EdgeTokenFilter" /\ ret = None

Init ==
    /\ filterClass \in {"EdgeLabelFilter", "EdgeTokenFilter"}
    /\ allowed \in SUBSET AllowedValues
    /\ usePath = FALSE
    /\ collaps = FALSE
    /\ wholeWords = FALSE
    /\ ret = None

\* EdgeLabelFilter.addAllowedLabel
AddAllowedLabel ==
    /\ IsLabel
    /\ \E label \in AllowedValues : allowed' = allowed \cup {label}
    /\ ret' = None
    /\ UNCHANGED <<filterClass, usePath, collaps, wholeWords>>

\* EdgeLabelFilter.removeAllowedLabel
RemoveAllowedLabel ==
    /\ IsLabel
    /\ \E label \in AllowedValues :
        IF label \in allowed
        THEN /\ allowed' = allowed \ {label}
             /\ ret' = None
        ELSE /\ allowed' = allowed
             /\ ret' = [op |-> "removeAllowedLabel", raised |-> "KeyError"]
    /\ UNCHANGED <<filterClass, usePath, collaps, wholeWords>>

\* EdgeLabelFilter.clear
ClearLabels ==
    /\ IsLabel
    /\ allowed' = {}
    /\ ret' = None
    /\ UNCHANGED <<filterClass, usePath, collaps, wholeWords>>

\* EdgeLabelFilter.filterEdges
LabelFilterEdgesCall ==
    /\ IsLabel
    /\ \E original \in LabelEdgeInputs :
        ret' = [op |-> "filterEdges", arg |-> original,
                result |-> LabelFilterEdges(allowed, original)]
    /\ UNCHANGED <<filterClass, allowed, usePath, collaps, wholeWords>>

\* EdgeTokenFilter.addAllowedProperty
AddAllowedProperty ==
    /\ IsToken
    /\ \E propertyValue \in AllowedValues : allowed' = allowed \cup {propertyValue}
    /\ ret' = None
    /\ UNCHANGED <<filterClass, usePath, collaps, wholeWords>>

\* EdgeTokenFilter.removeAllowedProperty
RemoveAllowedProperty ==
    /\ IsToken
    /\ \E propertyValue \in AllowedValues :
        IF propertyValue \in allowed
        THEN /\ allowed' = allowed \ {propertyValue}
             /\ ret' = None
        ELSE /\ allowed' = allowed
             /\ ret' = [op |-> "removeAllowedProperty", raised |-> "KeyError"]
    /\ UNCHANGED <<filterClass, usePath, collaps, wholeWords>>

\* EdgeTokenFilter.clear
ClearProperties ==
    /\ IsToken
    /\ allowed' = {}
    /\ ret' = None
    /\ UNCHANGED <<filterClass, usePath, collaps, wholeWords>>

\* EdgeTokenFilter.usePath setter
SetUsePath ==
    /\ IsToken
    /\ \E value \in BOOLEAN : usePath' = value
    /\ ret' = None
    /\ UNCHANGED <<filterClass, allowed, collaps, wholeWords>>

\* EdgeTokenFilter.collaps setter
SetCollaps ==
    /\ IsToken
    /\ \E value \in BOOLEAN : collaps' = value
    /\ ret' = None
    /\ UNCHANGED <<filterClass, allowed, usePath, wholeWords>>

\* EdgeTokenFilter.wholeWords setter
SetWholeWords ==
    /\ IsToken
    /\ \E value \in BOOLEAN : wholeWords' = value
    /\ ret' = None
    /\ UNCHANGED <<filterClass, allowed, usePath, collaps>>

\* EdgeTokenFilter.calculatePaths
CalculatePathsCall ==
    /\ IsToken
    /\ \E edges \in EdgeSetInputs :
        ret' = [op |-> "calculatePaths", arg |-> edges,
                paths |-> calculatePaths(edges)]
    /\ UNCHANGED <<filterClass, allowed, usePath, collaps, wholeWords>>

\* the call of calculatePaths is inside its while loop or its result loop
InCalculatePaths == ret.op \in {"calculatePaths.while", "calculatePaths.for"}

\* lines 186-196: the first level; the loop is entered. nonEmpty counts the
\* non-empty levels produced so far, up to one more than the edge count
CalculatePathsEnter ==
    /\ IsToken
    /\ \E edges \in EdgeSetInputs :
        LET first == FirstLevel(edges)
        IN  ret' = [op |-> "calculatePaths.while", arg |-> edges,
                    first |-> first,
                    previous |-> first,
                    pathsPerLength |-> <<first>>,
                    nonEmpty |-> IF PathsLen(first) = 0 THEN 0 ELSE 1]
    /\ UNCHANGED <<filterClass, allowed, usePath, collaps, wholeWords>>

\* lines 197-215: one pass of the while loop
CalculatePathsLevel ==
    /\ ret.op = "calculatePaths.while"
    /\ LET paths == NextLevel(ret.previous, ret.first)
       IN  ret' = [ret EXCEPT
                    !.op = IF PathsLen(paths) = 0 THEN "calculatePaths.for" ELSE @,
                    !.pathsPerLength = IF PathsLen(paths) = 0 THEN Append(@, paths) ELSE @,
                    !.previous = paths,
                    !.nonEmpty = IF PathsLen(paths) # 0 /\ @ <= Cardinality(ret.arg)
                                 THEN @ + 1 ELSE @]
    /\ UNCHANGED <<filterClass, allowed, usePath, collaps, wholeWords>>

\* lines 216-222: the levels are merged into the result, which is returned
CalculatePathsResult ==
    /\ ret.op = "calculatePaths.for"
    /\ ret' = [op |-> "calculatePaths", arg |-> ret.arg,
               paths |-> UNION {ret.pathsPerLength[i] : i \in 1..Len(ret.pathsPerLength)}]
    /\ UNCHANGED <<filterClass, allowed, usePath, collaps, wholeWords>>

\* EdgeTokenFilter.filterEdges
TokenFilterEdgesCall ==
    /\ IsToken
    /\ \E original \in FilterEdgeInputs :
        ret' = [op |-> "filterEdges", arg |-> original,
                result |-> TokenFilterEdges(allowed, usePath, wholeWords, original)]
    /\ UNCHANGED <<filterClass, allowed, usePath, collaps, wholeWords>>

\* EdgeTokenFilter.filter
FilterCall ==
    /\ IsToken
    /\ \E original \in InstanceInputs \cup CorruptInstanceInputs :
        ret' \in filter(allowed, usePath, collaps, wholeWords, original)
    /\ UNCHANGED <<filterClass, allowed, usePath, collaps, wholeWords>>

\* the caller takes the value (or the exception) of the last call
Return ==
    /\ ret # None
    /\ ~InCalculatePaths
    /\ ret' = None
    /\ UNCHANGED <<filterClass, allowed, usePath, collaps, wholeWords>>

Next ==
    \/ Return
    \/ AddAllowedLabel
    \/ RemoveAllowedLabel
    \/ ClearLabels
    \/ LabelFilterEdgesCall
    \/ AddAllowedProperty
    \/ RemoveAllowedProperty
    \/ ClearProperties
    \/ SetUsePath
    \/ SetCollaps
    \/ SetWholeWords
    \/ CalculatePathsCall
    \/ TokenFilterEdgesCall
    \/ FilterCall

Spec == Init /\ [][Next]_vars

\* calculatePaths taken one loop pass at a time, on a filter as constructed
\* with no allowed property
InitLoop ==
    /\ filterClass = "EdgeTokenFilter"
    /\ allowed = {}
    /\ usePath = FALSE
    /\ collaps = FALSE
    /\ wholeWords = FALSE
    /\ ret = None

NextLoop ==
    \/ CalculatePathsEnter
    \/ CalculatePathsLevel
    \/ CalculatePathsResult
    \/ Return

\* the call is synchronous: a loop pass that can run does run
LoopSpec ==
    /\ InitLoop
    /\ [][NextLoop]_vars
    /\ WF_vars(CalculatePathsLevel)
    /\ WF_vars(CalculatePathsResult)

(***************************************************************************)
(* The claims.                                                              *)
(***************************************************************************)
\* the spec's qualifies(token), under the filter's current configuration
Qualifies(token) ==
    \/ ~wholeWords /\ \E v \in token.props : \E s \in allowed : Contains(v, s)
    \/ wholeWords /\ \E v \in token.props : \E s \in allowed : v = s

FilterEdgesReturned == ret.op = "filterEdges"
LabelReturned == filterClass = "EdgeLabelFilter" /\ FilterEdgesReturned
TokenReturned == filterClass = "EdgeTokenFilter" /\ FilterEdgesReturned
PathsReturned == ret.op = "calculatePaths"
FilterReturned == ret.op = "filter"

\* the NLPInstance invariant: every edge endpoint belongs to the token
\* sequence, split points are non-decreasing indices within [0, tokenCount)
WellFormed(original) ==
    LET members == {original.tokens[i] : i \in 1..Len(original.tokens)}
        sp == original.splitPoints
    IN  /\ \A e \in original.edges : e.From \in members /\ e.To \in members
        /\ \A i \in 1..Len(sp) : sp[i] \in 0..(Len(original.tokens) - 1)
        /\ \A i \in 1..(Len(sp) - 1) : sp[i] <= sp[i + 1]

CollapseReturned == FilterReturned /\ WellFormed(ret.arg) /\ ret.raised = "" /\ ret.collapsed

\* the tokens an edge collection mentions
TokensOf(edges) == {e.From : e \in edges} \cup {e.To : e \in edges}

\* e1 is A-B and e2 is B-C for three distinct tokens A, B, C
Chain(e1, e2, A, B, C) ==
    /\ e1 # e2
    /\ {e1.From, e1.To} = {A, B}
    /\ {e2.From, e2.To} = {B, C}
    /\ A # B /\ B # C /\ A # C

\* C1: with an empty allowed set filterEdges of either filter returns its
\* input unchanged, whatever usePath, wholeWords and collapse are.
C1_EmptyAllowedIsIdentity ==
    (FilterEdgesReturned /\ allowed = {}) => ret.result = ret.arg

C1_Witness ==
    /\ TokenReturned /\ allowed = {} /\ usePath /\ wholeWords /\ collaps
    /\ Cardinality(ret.arg) >= 2
    /\ ret.result = ret.arg

\* C2: EdgeLabelFilter.filterEdges with a non-empty allowed set returns the
\* input edges whose label contains an allowed string, once per occurrence
\* in the input and in the input's order.
C2_LabelFilterSelects ==
    (LabelReturned /\ allowed # {}) =>
        LET in == ret.arg
            out == ret.result
            keep == {i \in 1..Len(in) : \E a \in allowed : Contains(in[i].label, a)}
            nth(j) == CHOOSE i \in keep : Cardinality({m \in keep : m <= i}) = j
        IN  /\ Len(out) = Cardinality(keep)
            /\ \A j \in 1..Len(out) : out[j] = in[nth(j)]

C2_Witness ==
    /\ LabelReturned /\ Cardinality(allowed) = 2
    /\ Len(ret.arg) = 3 /\ Len(ret.result) = 2
    /\ \E i \in 1..3 : \A a \in allowed : Contains(ret.arg[i].label, a)
    /\ ret.arg[1] # ret.arg[3] /\ ret.result = <<ret.arg[1], ret.arg[3]>>

\* C3: EdgeTokenFilter.filterEdges with a non-empty allowed set and usePath
\* off keeps an edge iff its from-token or its to-token qualifies.
C3_EdgeModeKeepsQualifying ==
    (TokenReturned /\ allowed # {} /\ ~usePath) =>
        /\ \A e \in ret.arg :
              e \in ret.result <=> (Qualifies(e.From) \/ Qualifies(e.To))
        /\ ret.result \subseteq ret.arg

C3_Witness ==
    /\ TokenReturned /\ allowed # {} /\ ~usePath /\ wholeWords
    /\ \E e1 \in ret.arg, e2 \in ret.arg :
        /\ ~Qualifies(e1.From) /\ Qualifies(e1.To) /\ e1 \in ret.result
        /\ ~Qualifies(e2.From) /\ ~Qualifies(e2.To) /\ e2 \notin ret.result

\* C4: for two distinct edges A-B and B-C with the same type prefix, the
\* index returned by calculatePaths holds the one-edge paths {A-B} and {B-C}
\* and the two-edge path {A-B, B-C} between A and C, in both directions.
C4_ComposedPathIndexed ==
    PathsReturned =>
        \A e1 \in ret.arg, e2 \in ret.arg :
        \A A \in TokensOf({e1}), B \in TokensOf({e1}), C \in TokensOf({e2}) :
            (Chain(e1, e2, A, B, C) /\ getTypePrefix(e1) = getTypePrefix(e2)) =>
                /\ {e1} \in getPaths(ret.paths, A, B)
                /\ {e2} \in getPaths(ret.paths, B, C)
                /\ {e1, e2} \in getPaths(ret.paths, A, C)
                /\ {e1, e2} \in getPaths(ret.paths, C, A)

\* C5: in path mode filterEdges returns the edges of the paths between the
\* qualifying tokens: for the graph A-B, B-C of one type prefix where A and C
\* qualify and B does not, it returns exactly {A-B, B-C}.
C5_PathModeReturnsConnectingEdges ==
    (TokenReturned /\ allowed # {} /\ usePath) =>
        \A e1 \in ret.arg, e2 \in ret.arg :
        \A A \in TokensOf({e1}), B \in TokensOf({e1}), C \in TokensOf({e2}) :
            ( /\ ret.arg = {e1, e2}
              /\ Chain(e1, e2, A, B, C)
              /\ getTypePrefix(e1) = getTypePrefix(e2)
              /\ Qualifies(A) /\ Qualifies(C) /\ ~Qualifies(B) ) =>
                ret.result = {e1, e2}

\* C6: in path mode, when fewer than two distinct tokens of the input graph
\* qualify, filterEdges returns the empty edge set.
C6_FewerThanTwoAnchorsGivesNothing ==
    ( /\ TokenReturned /\ allowed # {} /\ usePath
      /\ Cardinality({t \in TokensOf(ret.arg) : Qualifies(t)}) < 2 ) =>
        ret.result = {}

\* C7: every path of the index returned by calculatePaths has edges of one
\* type prefix only; for A-B and B-C of different type prefixes alone, the
\* index holds no path between A and C.
C7_PathsTypeHomogeneous ==
    PathsReturned =>
        /\ \A x \in ret.paths : \A e1 \in x[3], e2 \in x[3] :
              getTypePrefix(e1) = getTypePrefix(e2)
        /\ \A e1 \in ret.arg, e2 \in ret.arg :
           \A A \in TokensOf({e1}), B \in TokensOf({e1}), C \in TokensOf({e2}) :
              ( /\ ret.arg = {e1, e2}
                /\ Chain(e1, e2, A, B, C)
                /\ getTypePrefix(e1) # getTypePrefix(e2) ) =>
                  getPaths(ret.paths, A, C) = {}

C7_Witness ==
    /\ PathsReturned
    /\ \E e1 \in ret.arg, e2 \in ret.arg :
       \E A \in TokensOf({e1}), B \in TokensOf({e1}), C \in TokensOf({e2}) :
          /\ ret.arg = {e1, e2}
          /\ Chain(e1, e2, A, B, C)
          /\ getTypePrefix(e1) # getTypePrefix(e2)
          /\ getPaths(ret.paths, A, B) = {{e1}}
          /\ getPaths(ret.paths, A, C) = {}

\* the edges are a triangle A-B, B-C, C-A of one type prefix
Triangle(edges) ==
    /\ Cardinality(edges) = 3
    /\ Cardinality(TokensOf(edges)) = 3
    /\ \A e \in edges : e.From # e.To
    /\ \A e1 \in edges, e2 \in edges :
        /\ getTypePrefix(e1) = getTypePrefix(e2)
        /\ e1 # e2 => {e1.From, e1.To} # {e2.From, e2.To}

\* C8: no path of the index has more edges than the input, and for a
\* triangle A-B, B-C, C-A of one type prefix the longest path has exactly
\* three edges.
C8_TriangleLongestPathHasThreeEdges ==
    PathsReturned =>
        /\ \A x \in ret.paths : Cardinality(x[3]) <= Cardinality(ret.arg)
        /\ Triangle(ret.arg) =>
              /\ \E x \in ret.paths : Cardinality(x[3]) = 3
              /\ \A x \in ret.paths : Cardinality(x[3]) <= 3

\* the original tokens a surviving edge touches
Touched(original, surviving) ==
    {t \in {original.tokens[i] : i \in 1..Len(original.tokens)} :
        \E e \in surviving :
            \/ e.renderType = "dependency" /\ t \in {e.From, e.To}
            \/ e.renderType = "span" /\ e.From.index <= t.index /\ t.index <= e.To.index}

\* C9: with collapse on, filter returns one new token for each original
\* token touched by a surviving edge and none for the others; the new tokens
\* are numbered 0..k-1 in the order of their original indices.
C9_CollapseRenumbersTouchedTokens ==
    CollapseReturned =>
        LET touched == Touched(ret.arg, ret.filtered)
            k == Len(ret.tokens)
        IN  /\ DOMAIN ret.old2new = touched
            /\ k = Cardinality(touched)
            /\ \A i \in 1..k : ret.tokens[i].index = i - 1
            /\ \A t \in touched :
                /\ ret.old2new[t].index \in 0..(k - 1)
                /\ ret.tokens[ret.old2new[t].index + 1] = ret.old2new[t]
                /\ ret.old2new[t].props = t.props
            /\ \A t \in touched, u \in touched :
                t.index < u.index => ret.old2new[t].index < ret.old2new[u].index

C9_Witness ==
    /\ CollapseReturned /\ allowed # {}
    /\ \E e \in ret.filtered :
        e.renderType = "span" /\ e.From.index = 1 /\ e.To.index = 2
    /\ \E e \in ret.arg.edges : e \notin ret.filtered
    /\ Len(ret.tokens) = 2
    /\ \A t \in DOMAIN ret.old2new : ret.old2new[t].index = t.index - 1

\* C10: with collapse on, each original split point becomes the new index
\* of the first surviving token at or after it, or the last new index when
\* there is none; the new split points are non-decreasing and within [0, k).
C10_SplitPointsRemapped ==
    CollapseReturned =>
        LET old == ret.arg.splitPoints
            new == ret.splitPoints
            touched == DOMAIN ret.old2new
            k == Len(ret.tokens)
            after(sp) == {t \in touched : t.index >= sp}
            firstAfter(sp) == CHOOSE t \in after(sp) : \A u \in after(sp) : t.index <= u.index
        IN  /\ Len(new) = Len(old)
            /\ \A i \in 1..Len(old) :
                /\ new[i] = IF after(old[i]) # {}
                            THEN ret.old2new[firstAfter(old[i])].index
                            ELSE k - 1
                /\ new[i] \in 0..(k - 1)
            /\ \A i \in 1..(Len(new) - 1) : new[i] <= new[i + 1]

C10_Witness ==
    /\ CollapseReturned
    /\ Len(ret.tokens) = 2
    /\ ret.arg.splitPoints = <<1, 2>>
    /\ ret.splitPoints = <<1, 1>>
    /\ \A t \in DOMAIN ret.old2new : t.index # 1

\* C11: on a well-formed instance filter never fails: under every
\* configuration (allowed set, wholeWords, usePath, collapse) it returns a new
\* instance, also with collapse on when no edge survives and the original
\* instance has one or more split points.
C11_FilterNeverFails ==
    (FilterReturned /\ WellFormed(ret.arg)) => ret.raised = ""

\* an edge of the instance has an end that is no member of the token sequence
HasInvalidReference(original) ==
    \E e \in original.edges :
        \/ e.From \notin {original.tokens[i] : i \in 1..Len(original.tokens)}
        \/ e.To \notin {original.tokens[i] : i \in 1..Len(original.tokens)}

\* C12: when an edge of the instance has a from or to token outside the
\* instance's token sequence, filter (collapse off or on) ends in an error
\* surfaced to the caller; it returns no instance.
C12_InvalidReferenceSurfaced ==
    (FilterReturned /\ HasInvalidReference(ret.arg)) => ret.raised # ""

\* C13: calculatePaths terminates on every finite edge set, cycles,
\* self-loops and parallel edges included: the loop produces at most |E|
\* non-empty levels, reaches a level with no path, and returns the index, the
\* union of the levels it kept.
C13_CalculatePathsTerminates ==
    /\ [](InCalculatePaths => ret.nonEmpty <= Cardinality(ret.arg))
    /\ [](PathsReturned => ret.paths = calculatePaths(ret.arg))
    /\ (InCalculatePaths ~> PathsReturned)

C13_Witness ==
    /\ ret.op = "calculatePaths.for"
    /\ \E e1 \in ret.arg, e2 \in ret.arg, e3 \in ret.arg :
        /\ e1.From = e1.To
        /\ e2 # e3 /\ e2.From = e3.From /\ e2.To = e3.To /\ e2.From # e2.To
        /\ e1.From = e2.To
    /\ ret.nonEmpty = 1
    /\ Len(ret.pathsPerLength) = 2
    /\ PathsLen(ret.previous) = 0

====
